---- MODULE Spec2Model ----
(***************************************************************************)
(* Model of packages/basemap/utils/GeosLibrary.py: one GeosLibrary         *)
(* instance, the files it keeps under its root (the archive, the extracted *)
(* tree, the build tree), the install directory and the process current    *)
(* directory, driven by download(), extract(), build() and __del__().      *)
(***************************************************************************)
EXTENDS Integers, Sequences, FiniteSets, TLC

\* Calls made on one instance before it is disposed of.
MaxCalls == 2

\* The archive file root/geos-<version>.zip: missing, cut short, or the
\* identifier of the complete archive it holds.
NoZip == "absent"
Truncated == "truncated"

\* A text file of the extracted tree.
NoFile == [exists |-> FALSE, text |-> <<>>]
File(text) == [exists |-> TRUE, text |-> text]

NoTree ==
    [exists |-> FALSE, cmake |-> NoFile, hdr |-> NoFile, files |-> {},
     exec |-> {}, build |-> "absent"]

(***************************************************************************)
(* Text.  A file's text is a sequence of atoms: "CR" and "LF" are the two  *)
(* line-break bytes, every other atom is a run of ordinary characters.     *)
(***************************************************************************)
oldtext == <<"target_link_libraries(geos_c ", "geos", ")">>
newtext == <<"target_link_libraries(geos_c ", "geos", "-static", ")">>
svn_text == <<"#define GEOS_SVN_REVISION 0">>

\* str.replace: every non-overlapping occurrence, scanning from the left.
RECURSIVE replace(_, _, _)
replace(s, old, new) ==
    IF Len(s) < Len(old) THEN s
    ELSE IF SubSeq(s, 1, Len(old)) = old
         THEN new \o replace(SubSeq(s, Len(old) + 1, Len(s)), old, new)
         ELSE <<Head(s)>> \o replace(Tail(s), old, new)

\* io.open(..., "r").readlines(): universal newlines, so "\r\n" and a lone
\* "\r" both end a line and are handed over as "\n".
RECURSIVE SplitLines(_, _)
SplitLines(text, cur) ==
    IF text = <<>> THEN (IF cur = <<>> THEN <<>> ELSE <<cur>>)
    ELSE IF Head(text) = "LF"
         THEN <<Append(cur, "LF")>> \o SplitLines(Tail(text), <<>>)
    ELSE IF Head(text) = "CR"
         THEN LET rest == IF Len(text) > 1 /\ text[2] = "LF"
                          THEN Tail(Tail(text)) ELSE Tail(text)
              IN  <<Append(cur, "LF")>> \o SplitLines(rest, <<>>)
    ELSE SplitLines(Tail(text), Append(cur, Head(text)))

readlines(text) == SplitLines(text, <<>>)

RECURSIVE Concat(_)
Concat(lines) ==
    IF lines = <<>> THEN <<>> ELSE Head(lines) \o Concat(Tail(lines))

\* The rewrite of capi/CMakeLists.txt: every line read, replaced, written.
patch_cmake(text) ==
    LET lines == readlines(text)
    IN  Concat([i \in 1..Len(lines) |-> replace(lines[i], oldtext, newtext)])

(***************************************************************************)
(* The version argument.  A string is the sequence of its characters.      *)
(***************************************************************************)
Elems(seq) == {seq[i] : i \in 1..Len(seq)}

DigitChars == <<"0", "1", "2", "3", "4", "5", "6", "7", "8", "9">>

\* version.split(".")
RECURSIVE SplitDots(_, _)
SplitDots(chars, cur) ==
    IF chars = <<>> THEN <<cur>>
    ELSE IF Head(chars) = "." THEN <<cur>> \o SplitDots(Tail(chars), <<>>)
    ELSE SplitDots(Tail(chars), Append(cur, Head(chars)))

split(chars) == SplitDots(chars, <<>>)

\* int(component), for a non-empty string of decimal digits
RECURSIVE int(_)
int(chars) ==
    LET d == CHOOSE k \in 0..9 : DigitChars[k + 1] = chars[Len(chars)]
    IN  IF Len(chars) = 1 THEN d
        ELSE 10 * int(SubSeq(chars, 1, Len(chars) - 1)) + d

\* str(n), for n >= 0
RECURSIVE str(_)
str(n) ==
    IF n < 10 THEN <<DigitChars[n + 1]>>
    ELSE str(n \div 10) \o <<DigitChars[(n % 10) + 1]>>

\* ".".join(parts)
RECURSIVE join_undotted(_)
join_undotted(parts) ==
    IF parts = <<>> THEN <<>> ELSE Head(parts) \o join_undotted(Tail(parts))

RECURSIVE join(_)
join(parts) ==
    IF parts = <<>> THEN <<>>
    ELSE IF Len(parts) = 1 THEN parts[1]
    ELSE parts[1] \o <<".">> \o join(Tail(parts))

\* "self.version_tuple = tuple(map(int, version.split(".")))"
version_tuple_of(chars) ==
    LET parts == split(chars) IN [i \in 1..Len(parts) |-> int(parts[i])]

\* The property version: ".".join(map(str, self.version_tuple))
version(vt) == join([i \in 1..Len(vt) |-> str(vt[i])])

\* The names made from the property version: the download link, the archive
\* file and the extracted directory.
names(vt) ==
    [link    |-> <<"https://github.com/libgeos/geos/archive/refs/tags", "/">>
                    \o version(vt) \o <<".zip">>,
     zipname |-> <<"geos-">> \o version(vt) \o <<".zip">>,
     zipfold |-> <<"geos-">> \o version(vt)]

(***************************************************************************)
(* Versions and the 3.6.0 gate.                                            *)
(***************************************************************************)
VersionArgs ==
    {<<"3", ".", "5", ".", "2">>, <<"3", ".", "6">>, <<"3", ".", "6", ".", "0">>}

Versions == {version_tuple_of(v) : v \in VersionArgs}
Threshold == <<3, 6, 0>>

\* Python's tuple "<": the first differing component decides, and a proper
\* prefix is smaller.
RECURSIVE TupleLess(_, _)
TupleLess(a, b) ==
    IF b = <<>> THEN FALSE
    ELSE IF a = <<>> THEN TRUE
    ELSE IF Head(a) # Head(b) THEN Head(a) < Head(b)
    ELSE TupleLess(Tail(a), Tail(b))

(***************************************************************************)
(* Archives the download link may deliver.  An archive holds the files of  *)
(* the top-level folder geos-<version>.                                    *)
(***************************************************************************)
ArchiveIds == {"lf", "crlf", "modern", "nocapi"}

Archive(id) ==
    CASE id = "lf" ->
           [cmake |-> File(<<"add_library(geos_c)", "LF">> \o oldtext
                             \o <<"LF", "install()", "LF">>),
            hdr   |-> NoFile]
      [] id = "crlf" ->
           [cmake |-> File(<<"add_library(geos_c)", "CR", "LF">> \o oldtext
                             \o <<"CR", "LF">>),
            hdr   |-> File(<<"#define GEOS_SVN_REVISION 4084">>)]
      [] id = "modern" ->
           [cmake |-> File(<<"target_sources(geos_c)", "LF">>),
            hdr   |-> NoFile]
      [] id = "nocapi" ->
           [cmake |-> NoFile,
            hdr   |-> NoFile]

(***************************************************************************)
(* The extracted tree root/geos-<version>.  A path is the tuple of its     *)
(* components, the last one being the file name's extension.               *)
(***************************************************************************)
ArchivePaths ==
    {<<"tools", "astyle", "sh">>, <<"tools", "ci", "script", "sh">>, <<"README", "">>}

ArchiveFiles(id) ==
    CASE id = "lf"     -> ArchivePaths
      [] id = "crlf"   -> {<<"tools", "astyle", "sh">>, <<"README", "">>}
      [] id = "modern" -> ArchivePaths
      [] id = "nocapi" -> {<<"README", "">>}

\* glob("<zipfold>/tools/*.sh"): the files directly under tools/ named *.sh.
IsToolScript(p) == Len(p) = 3 /\ p[1] = "tools" /\ p[3] = "sh"

\* shutil.rmtree(zipfold)
rmtree(tree) == NoTree

\* ZipFile.extractall(root): the archive's files are written under zipfold,
\* over files of the same name; files the archive does not name are kept.
\* A file it creates gets the default mode (not executable).
extractall(tree, id) ==
    LET a == Archive(id)
    IN  IF ~tree.exists
        THEN [exists |-> TRUE, cmake |-> a.cmake, hdr |-> a.hdr,
              files |-> ArchiveFiles(id), exec |-> {}, build |-> "absent"]
        ELSE [tree EXCEPT !.cmake = IF a.cmake # NoFile THEN a.cmake ELSE @,
                          !.hdr   = IF a.hdr # NoFile THEN a.hdr ELSE @,
                          !.files = @ \cup ArchiveFiles(id)]

\* os.chmod(path, 0o755) for every tools/*.sh
chmod_scripts_any_depth(tree) ==
    [tree EXCEPT !.exec = @ \cup {p \in tree.files :
                                    p[1] = "tools" /\ p[Len(p)] = "sh"}]
chmod_scripts(tree) ==
    [tree EXCEPT !.exec = @ \cup {p \in tree.files : IsToolScript(p)}]

\* "if not os.path.exists(zippath)"
NeedsDownloadNever(zip) == FALSE
NeedsDownloadAlways(zip) == TRUE
NeedsDownload(zip) == zip = NoZip

\* "if os.path.exists(zipfold): if not overwrite: raise OSError"
DestinationRefusedNever(tree, overwrite) == FALSE
DestinationRefused(tree, overwrite) == tree.exists /\ ~overwrite

\* "if self.version_tuple < (3, 6, 0) and not os.path.exists(svn_hfile)"
NeedsHeaderAtOrAbove(vt, tree) == ~TupleLess(Threshold, vt) /\ tree.hdr = NoFile
NeedsHeaderAlways(vt, tree) == TupleLess(vt, Threshold)
NeedsHeader(vt, tree) == TupleLess(vt, Threshold) /\ tree.hdr = NoFile

write_header(tree) == [tree EXCEPT !.hdr = File(svn_text)]

(***************************************************************************)
(* download(): every way the call can end, as [zip, err, log].             *)
(***************************************************************************)
DownloadOutcomes(rootExists, zip) ==
    \* urlopen raises
    {[zip |-> zip, err |-> "URLError", log |-> <<"urlopen">>]}
    \* the connection breaks while the body is copied into the temporary file
    \cup {[zip |-> zip, err |-> "URLError", log |-> <<"urlopen", "copy_to_temp">>]}
    \cup (IF ~rootExists
          THEN \* open(zippath, "wb") raises: no directory to write in
               {[zip |-> zip, err |-> "IOError",
                 log |-> <<"urlopen", "copy_to_temp", "open_zip">>]}
          ELSE \* open(zippath, "wb") truncates; the copy into it breaks off
               {[zip |-> Truncated, err |-> "IOError",
                 log |-> <<"urlopen", "copy_to_temp", "open_zip", "copy_to_zip">>]}
               \cup
               {[zip |-> id, err |-> "none",
                 log |-> <<"urlopen", "copy_to_temp", "open_zip", "copy_to_zip", "utime">>]
                   : id \in ArchiveIds})

(***************************************************************************)
(* extract(overwrite): every way the call can end, as [zip, tree, err,     *)
(* log].                                                                   *)
(***************************************************************************)
\* Lines 124-155, with the archive path already settled.
ExtractSteps(vt, zip, tree, overwrite, log) ==
    IF DestinationRefused(tree, overwrite)
    THEN [zip |-> zip, tree |-> tree, err |-> "FolderExists", log |-> log]
    ELSE
    LET t1   == IF tree.exists THEN rmtree(tree) ELSE tree
        log1 == IF tree.exists THEN Append(log, "rmtree") ELSE log
    IN
    IF zip = NoZip
    THEN [zip |-> zip, tree |-> t1, err |-> "IOError", log |-> Append(log1, "ZipFile")]
    ELSE IF zip = Truncated
    THEN [zip |-> zip, tree |-> t1, err |-> "BadZipFile", log |-> Append(log1, "ZipFile")]
    ELSE
    LET t2   == chmod_scripts(extractall(t1, zip))
        log2 == log1 \o <<"ZipFile", "extractall", "chmod">>
    IN
    IF t2.cmake = NoFile
    THEN [zip |-> zip, tree |-> t2, err |-> "IOError", log |-> Append(log2, "open_cmake")]
    ELSE
    LET t3   == [t2 EXCEPT !.cmake = File(patch_cmake(@.text))]
        hdr  == NeedsHeader(vt, t3)
        t4   == IF hdr THEN write_header(t3) ELSE t3
        log4 == log2 \o <<"open_cmake", "patch">>
                     \o (IF hdr THEN <<"write_header">> ELSE <<>>)
    IN  [zip |-> zip, tree |-> t4, err |-> "none", log |-> log4]

ExtractOutcomes(vt, rootExists, zip, tree, overwrite) ==
    IF NeedsDownload(zip)
    THEN {IF d.err # "none"
          THEN [zip |-> d.zip, tree |-> tree, err |-> d.err, log |-> d.log]
          ELSE ExtractSteps(vt, d.zip, tree, overwrite, d.log)
            : d \in DownloadOutcomes(rootExists, zip)}
    ELSE {ExtractSteps(vt, zip, tree, overwrite, <<>>)}

(***************************************************************************)
(* build(): every way the call can end, as [zip, tree, install, cwd, err,  *)
(* log].  A log entry of build() carries the current directory at the time *)
(* of the event and, for an external invocation, its exit status.          *)
(***************************************************************************)
BuildDir == "builddir"

\* A step of a call: what it is, the current directory at it and how it
\* ended; for a start of the build tool also its arguments and environment.
Ev(e, c, s) == [ev |-> e, cwd |-> c, status |-> s, args |-> <<>>, env |-> {}]

Invocation(e, c, s, args, env) ==
    [ev |-> e, cwd |-> c, status |-> s, args |-> args, env |-> env]

Stamp(log, c) == [i \in 1..Len(log) |-> Ev(log[i], c, "")]

\* "self.extract(overwrite=True)"
build_overwrite_false == FALSE
build_overwrite == TRUE

\* "finally: os.chdir(cwd)"
restore_cwd_skip(saved, current) == current
restore_cwd(saved, current) == saved

\* The hosts build() may run on: os.name, 8 * struct.calcsize("P") and
\* os.environ (a set of <<name, value>> pairs).
Hosts ==
    {[os_name |-> "posix", bits |-> 64, environ |-> {<<"PATH", "/usr/bin">>}],
     [os_name |-> "posix", bits |-> 32,
      environ |-> {<<"PATH", "/usr/bin">>, <<"MAKEFLAGS", "-j 8">>}],
     [os_name |-> "nt", bits |-> 64, environ |-> {<<"PATH", "C:\\Windows">>}],
     [os_name |-> "nt", bits |-> 32,
      environ |-> {<<"PATH", "C:\\Windows">>, <<"MAKEFLAGS", "-j 8">>}]}

\* The njobs arguments tried.
Jobs == {1, 4}

\* installdir=None: os.path.abspath(os.path.expanduser("~/.local/share/libgeos"))
DefaultInstallDir == "/home/user/.local/share/libgeos"

\* "os.name == 'nt' and self.version_tuple < (3, 6, 0)"
legacy_windows_any_os(os_name, vt) == TupleLess(vt, Threshold)
legacy_windows_two_components(os_name, vt) ==
    os_name = "nt" /\ TupleLess(vt, <<3, 6>>)
legacy_windows(os_name, vt) == os_name = "nt" /\ TupleLess(vt, Threshold)

\* Lines 172-179
config_opts(os_name, vt, installdir) ==
    LET opts == <<"-DCMAKE_INSTALL_PREFIX=" \o installdir,
                  "-DGEOS_ENABLE_TESTS=OFF",
                  "-DCMAKE_BUILD_TYPE=Release">>
    IN  IF legacy_windows(os_name, vt)
        THEN <<"-G", "NMake Makefiles">> \o opts
        ELSE opts

\* "{0:d}".format(njobs)
FormatInt(n) == ToString(n)

\* Lines 183-197
build_opts_always_flag(os_name, vt, bits, njobs) ==
    <<"-j", FormatInt(njobs), "--config", "Release", "--target", "install">>
build_opts(os_name, vt, bits, njobs) ==
    LET opts == <<"--config", "Release", "--target", "install">>
    IN  IF os_name # "nt" THEN opts
        ELSE IF TupleLess(vt, Threshold)
        THEN opts \o <<"--",
                       "WIN64=" \o (IF bits = 64 THEN "YES" ELSE "NO"),
                       "BUILD_BATCH=" \o (IF njobs > 1 THEN "YES" ELSE "NO")>>
        ELSE <<"-j", FormatInt(njobs)>> \o opts

\* Lines 182 and 187-188: os.environ.copy(), MAKEFLAGS set off Windows.
build_env_unset(os_name, environ, njobs) == environ
build_env(os_name, environ, njobs) ==
    IF os_name # "nt"
    THEN {v \in environ : v[1] # "MAKEFLAGS"}
            \cup {<<"MAKEFLAGS", "-j " \o FormatInt(njobs)>>}
    ELSE environ

\* How os.makedirs(dir) ends for a directory in state d (can: whether the
\* directory can be created); every OSError is swallowed.
makedirs_status_unconditional(d, can) == IF can THEN "created" ELSE "failed"
makedirs_status(d, can) ==
    IF d # "absent" THEN "exists" ELSE IF can THEN "created" ELSE "failed"

\* subprocess.call(...) returns the exit status of cmake, which build()
\* drops; it raises OSError only when there is no cmake to start.
call_raises_on_status(status) == status # "ok"
call_raises(status) == status = "enoent"

\* Lines 199-219, after the extraction e succeeded.  mk, mi: whether
\* os.makedirs can create the build and the install directory; cm, bs: how
\* the configure and the build invocation end ("enoent": subprocess.call
\* raises, there is no cmake to run).
BuildSteps(e, install, c, vt, host, njobs, mk, cm, mi, bs) ==
    LET copts == config_opts(host.os_name, vt, DefaultInstallDir)
        bopts == build_opts(host.os_name, vt, host.bits, njobs)
        benv  == build_env(host.os_name, host.environ, njobs)
        mks  == makedirs_status(e.tree.build, mk)
        t1   == IF mks = "created"
                THEN [e.tree EXCEPT !.build = "empty"] ELSE e.tree
        log1 == Append(Stamp(e.log, c), Ev("makedirs_build", c, mks))
    IN
    IF t1.build = "absent"
    THEN \* os.chdir(builddir) raises
         [zip |-> e.zip, tree |-> t1, install |-> install,
          cwd |-> restore_cwd(c, c), err |-> "OSError",
          log |-> log1 \o <<Ev("chdir_failed", c, ""),
                            Ev("chdir_back", restore_cwd(c, c), "")>>]
    ELSE
    LET log2 == Append(log1, Ev("chdir", BuildDir, ""))
        back == restore_cwd(c, BuildDir)
    IN
    IF call_raises(cm)
    THEN \* subprocess.call raises: there is no cmake to run
         [zip |-> e.zip, tree |-> t1, install |-> install,
          cwd |-> back, err |-> "OSError",
          log |-> log2 \o <<Invocation("configure_failed", BuildDir, cm,
                                       <<"cmake", "..">> \o copts, host.environ),
                            Ev("chdir_back", back, "")>>]
    ELSE
    LET t3   == IF cm = "ok" THEN [t1 EXCEPT !.build = "configured"] ELSE t1
        mis  == makedirs_status(install, mi)
        i4   == IF mis = "created" THEN "empty" ELSE install
        log4 == log2 \o <<Invocation("configure", BuildDir, cm,
                                     <<"cmake", "..">> \o copts, host.environ),
                          Ev("makedirs_install", BuildDir, mis)>>
    IN
    IF call_raises(bs)
    THEN [zip |-> e.zip, tree |-> t3, install |-> i4,
          cwd |-> back, err |-> "OSError",
          log |-> log4 \o <<Invocation("build_failed", BuildDir, bs,
                                       <<"cmake", "--build", ".">> \o bopts, benv),
                            Ev("chdir_back", back, "")>>]
    ELSE
    LET done == cm = "ok" /\ bs = "ok" /\ i4 # "absent"
        t5   == IF done THEN [t3 EXCEPT !.build = "built"] ELSE t3
        i5   == IF done THEN "installed" ELSE i4
    IN  [zip |-> e.zip, tree |-> t5, install |-> i5,
         cwd |-> back, err |-> "none",
         log |-> log4 \o <<Invocation("build", BuildDir, bs,
                                      <<"cmake", "--build", ".">> \o bopts, benv),
                           Ev("chdir_back", back, "")>>]

\* The error of extract() leaves build() at once.
ExtractFailedIgnored(e) == FALSE
ExtractFailed(e) == e.err # "none"

BuildOutcomes(vt, rootExists, zip, tree, install, c, host, njobs) ==
    UNION {IF ExtractFailed(e)
           THEN {[zip |-> e.zip, tree |-> e.tree, install |-> install,
                  cwd |-> c, err |-> e.err, log |-> Stamp(e.log, c)]}
           ELSE {BuildSteps(e, install, c, vt, host, njobs, mk, cm, mi, bs) :
                    mk \in BOOLEAN, cm \in {"enoent", "ok", "failed"},
                    mi \in BOOLEAN, bs \in {"enoent", "ok", "failed"}}
             : e \in ExtractOutcomes(vt, rootExists, zip, tree, build_overwrite)}

(***************************************************************************)
(* __del__(): "if self.temp", then rmtree(root) with OSError swallowed.    *)
(***************************************************************************)
removes_root_always(t) == TRUE
removes_root(t) == t

\* rmfail: whether shutil.rmtree(root), if called, raises OSError.  It
\* raises at the first entry it cannot remove, so the root itself stays and
\* what it held may be gone already.
DelOutcomes(t, rootExists, zip, tree, rmfail) ==
    IF ~removes_root(t)
    THEN {[rootExists |-> rootExists, zip |-> zip, tree |-> tree]}
    ELSE IF ~rmfail
    THEN {[rootExists |-> FALSE, zip |-> NoZip, tree |-> NoTree]}
    ELSE {[rootExists |-> rootExists, zip |-> z, tree |-> tr] :
             z \in {zip, NoZip}, tr \in {tree, NoTree}}

(***************************************************************************)
(* State.                                                                  *)
(***************************************************************************)
VARIABLES
    version_tuple,  \* self.version_tuple
    temp,           \* self.temp
    rootExists,     \* whether the directory self.root exists
    zip,            \* root/geos-<version>.zip: NoZip, Truncated or an archive
    tree,           \* root/geos-<version>
    install,        \* the install directory: "absent", "empty", "installed"
    cwd,            \* os.getcwd()
    alive,          \* FALSE once __del__ has run
    host,           \* os.name, the pointer width and os.environ
    ncalls,         \* calls made so far
    last,           \* the last call: what it was, how it ended, what it did
    prev,           \* the call before the last
    version_arg,    \* the version argument __init__ was given
    observed        \* what the caller has read of the instance so far

vars == <<version_tuple, temp, rootExists, zip, tree, install, cwd, alive,
          host, ncalls, last, prev, version_arg, observed>>

\* A tree that an earlier run left under a caller-supplied root: patched,
\* built, its revision header rewritten since.
StaleTree ==
    [exists |-> TRUE, cmake |-> File(patch_cmake(Archive("lf").cmake.text)),
     hdr |-> File(<<"#define GEOS_SVN_REVISION 1">>),
     files |-> ArchivePaths, exec |-> {<<"tools", "astyle", "sh">>},
     build |-> "built"]

Snapshot ==
    [zip |-> zip, tree |-> tree, cwd |-> cwd, rootExists |-> rootExists,
     install |-> install]

Summary(l) == [op |-> l.op, overwrite |-> l.overwrite, err |-> l.err]

\* __init__: a self-allocated root is a fresh empty directory; a
\* caller-supplied root holds whatever it held, and is missing when
\* os.makedirs failed (the OSError is swallowed).
Unobserved == [version |-> <<>>, names |-> <<>>, header |-> <<>>,
               generator |-> <<>>, driver |-> <<>>]

Init ==
    /\ version_arg \in VersionArgs
    /\ version_tuple = version_tuple_of(version_arg)
    /\ observed = Unobserved
    /\ temp \in BOOLEAN
    /\ IF temp
       THEN rootExists = TRUE /\ zip = NoZip /\ tree = NoTree
       ELSE /\ rootExists \in BOOLEAN
            /\ IF rootExists
               THEN /\ zip \in {NoZip, Truncated} \cup ArchiveIds
                    /\ tree \in {NoTree, StaleTree}
               ELSE zip = NoZip /\ tree = NoTree
    /\ install = "absent"
    /\ cwd \in {"home", "work"}
    /\ alive = TRUE
    /\ host \in Hosts
    /\ ncalls = 0
    /\ last = [op |-> "new", overwrite |-> FALSE, njobs |-> 0, rmfail |-> FALSE,
               err |-> "none", log |-> <<>>,
               pre |-> [zip |-> zip, tree |-> tree, cwd |-> cwd,
                        rootExists |-> rootExists, install |-> install]]
    /\ prev = [op |-> "none", overwrite |-> FALSE, err |-> "none"]

\* njobs: the njobs argument of build(), 0 for the other calls.
Called(op, overwrite, njobs, err, log) ==
    /\ ncalls' = ncalls + 1
    /\ prev' = Summary(last)
    /\ last' = [op |-> op, overwrite |-> overwrite, njobs |-> njobs,
                rmfail |-> FALSE, err |-> err, log |-> log, pre |-> Snapshot]

Download ==
    /\ alive /\ ncalls < MaxCalls
    /\ \E d \in DownloadOutcomes(rootExists, zip) :
          /\ zip' = d.zip
          /\ Called("download", FALSE, 0, d.err, Stamp(d.log, cwd))
    /\ UNCHANGED <<version_arg, observed, version_tuple, temp, rootExists,
                   tree, install, cwd, alive, host>>

Extract ==
    /\ alive /\ ncalls < MaxCalls
    /\ \E overwrite \in BOOLEAN :
       \E e \in ExtractOutcomes(version_tuple, rootExists, zip, tree, overwrite) :
          /\ zip' = e.zip
          /\ tree' = e.tree
          /\ Called("extract", overwrite, 0, e.err, Stamp(e.log, cwd))
    /\ UNCHANGED <<version_arg, observed, version_tuple, temp, rootExists,
                   install, cwd, alive, host>>

Build ==
    /\ alive /\ ncalls < MaxCalls
    /\ \E njobs \in Jobs :
       \E b \in BuildOutcomes(version_tuple, rootExists, zip, tree, install,
                              cwd, host, njobs) :
          /\ zip' = b.zip
          /\ tree' = b.tree
          /\ install' = b.install
          /\ cwd' = b.cwd
          /\ Called("build", build_overwrite, njobs, b.err, b.log)
    /\ UNCHANGED <<version_arg, observed, version_tuple, temp, rootExists,
                   alive, host>>

Del ==
    /\ alive
    /\ \E rmfail \in BOOLEAN :
       \E d \in DelOutcomes(temp, rootExists, zip, tree, rmfail) :
              /\ rootExists' = d.rootExists
              /\ zip' = d.zip
              /\ tree' = d.tree
              /\ prev' = Summary(last)
              /\ last' = [op |-> "del", overwrite |-> FALSE, njobs |-> 0,
                          rmfail |-> rmfail,
                          err |-> "none", log |-> <<>>, pre |-> Snapshot]
    /\ alive' = FALSE
    /\ UNCHANGED <<version_arg, observed, version_tuple, temp, install, cwd,
                   host, ncalls>>

Next == Download \/ Extract \/ Build \/ Del

Spec == Init /\ [][Next]_vars

(***************************************************************************)
(* The version argument over all dotted strings of a bounded length: what  *)
(* an instance constructed with it shows of its version and how the two    *)
(* version tests of extract() and build() come out.                        *)
(***************************************************************************)
MaxVersionLen == 5

VersionChars == {"0", "3", "6", "."}

\* The strings int() accepts component by component: no component is empty.
ValidVersion(chars) ==
    /\ chars[1] # "." /\ chars[Len(chars)] # "."
    /\ \A i \in 1..(Len(chars) - 1) : ~(chars[i] = "." /\ chars[i + 1] = ".")

DottedVersions ==
    UNION {{v \in [1..n -> VersionChars] : ValidVersion(v)} :
              n \in 1..MaxVersionLen}

\* The extracted directory right after extractall of an archive that has
\* no revision header.
FreshTree == extractall(NoTree, "lf")

InitVersion ==
    /\ version_arg \in DottedVersions
    /\ version_tuple = version_tuple_of(version_arg)
    /\ observed = Unobserved
    /\ temp = TRUE /\ rootExists = TRUE /\ zip = NoZip /\ tree = NoTree
    /\ install = "absent"
    /\ cwd = "home"
    /\ alive = TRUE
    /\ host \in Hosts
    /\ ncalls = 0
    /\ last = [op |-> "new", overwrite |-> FALSE, njobs |-> 0, rmfail |-> FALSE,
               err |-> "none", log |-> <<>>,
               pre |-> [zip |-> zip, tree |-> tree, cwd |-> cwd,
                        rootExists |-> rootExists, install |-> install]]
    /\ prev = [op |-> "none", overwrite |-> FALSE, err |-> "none"]

Unobserving ==
    UNCHANGED <<version_arg, version_tuple, temp, rootExists, zip, tree,
                install, cwd, alive, host, ncalls, last, prev>>

\* Reading the property version.
ReadVersion ==
    /\ observed.version = <<>>
    /\ observed' = [observed EXCEPT !.version = version(version_tuple)]
    /\ Unobserving

\* The link of download() and the paths of download(), extract(), build().
ReadNames ==
    /\ observed.names = <<>>
    /\ observed' = [observed EXCEPT !.names = <<names(version_tuple)>>]
    /\ Unobserving

\* The test of extract() for the revision header, on a tree without one.
HeaderGate ==
    /\ observed.header = <<>>
    /\ observed' = [observed EXCEPT
                       !.header = <<NeedsHeader(version_tuple, FreshTree)>>]
    /\ Unobserving

\* The options build() assembles: is the NMake generator among the
\* configure options, are the driver variables among the build options.
BuildGates ==
    /\ observed.generator = <<>>
    /\ \E njobs \in Jobs :
          observed' = [observed EXCEPT
             !.generator = <<"-G" \in Elems(config_opts(host.os_name,
                                     version_tuple, DefaultInstallDir))>>,
             !.driver = <<"--" \in Elems(build_opts(host.os_name,
                                     version_tuple, host.bits, njobs))>>]
    /\ Unobserving

NextVersion == ReadVersion \/ ReadNames \/ HeaderGate \/ BuildGates

SpecVersion == InitVersion /\ [][NextVersion]_vars

(***************************************************************************)
(* Helpers of the properties.                                              *)
(***************************************************************************)
Contains(s, sub) ==
    \E i \in 1..(Len(s) - Len(sub) + 1) : SubSeq(s, i, i + Len(sub) - 1) = sub

\* The lines of a text as its bytes stand: a line ends after "LF".
RECURSIVE RawLines(_, _)
RawLines(text, cur) ==
    IF text = <<>> THEN (IF cur = <<>> THEN <<>> ELSE <<cur>>)
    ELSE IF Head(text) = "LF"
         THEN <<Append(cur, "LF")>> \o RawLines(Tail(text), <<>>)
         ELSE RawLines(Tail(text), Append(cur, Head(text)))

Events(log, e) == {i \in 1..Len(log) : log[i].ev = e}

Below360 == TupleLess(version_tuple, Threshold)

ExtractDone == last.op = "extract" /\ last.err = "none"

\* The call before the last one was a successful extract(overwrite=true).
PrevExtractDone == prev = [op |-> "extract", overwrite |-> TRUE, err |-> "none"]

(***************************************************************************)
(* C1.  extract(overwrite=false) on an existing extracted directory.       *)
(***************************************************************************)
RefusedCase == last.op = "extract" /\ ~last.overwrite /\ last.pre.tree.exists

\* C1 as stated: whenever the extracted directory exists when
\* extract(overwrite=false) is called, the call fails with the
\* destination-exists error and the extracted tree is as it was.
C1_AlwaysDestinationExists ==
    RefusedCase => last.err = "FolderExists" /\ tree = last.pre.tree

\* C1 as amended: whenever the extracted directory exists when
\* extract(overwrite=false) is called, the call fails and the extracted tree
\* is as it was; the error is the destination-exists error when the archive
\* file was present or the download made first succeeded, and otherwise it
\* is the error of that download.
C1_RefusedTreeUntouched ==
    RefusedCase =>
        /\ tree = last.pre.tree
        /\ last.err # "none"
        /\ last.err # "FolderExists" =>
              /\ last.pre.zip = NoZip
              /\ last.err \in {"URLError", "IOError"}
              /\ Events(last.log, "urlopen") # {}
        /\ last.pre.zip # NoZip => last.err = "FolderExists" /\ zip = last.pre.zip

\* extract(overwrite=false) refused with the destination-exists error, the
\* tree being one that a build had filled.
C1_Witness ==
    /\ RefusedCase
    /\ last.err = "FolderExists"
    /\ tree.build = "built"

(***************************************************************************)
(* C2.  extract(overwrite=true) twice in succession.                       *)
(***************************************************************************)
\* C2: when a successful extract(overwrite=true) directly follows a
\* successful extract(overwrite=true), the extracted tree (files, descriptor
\* text, revision header, executable scripts, build tree) and the archive
\* are what the first call left.
C2_ExtractTwiceSame ==
    (PrevExtractDone /\ ExtractDone /\ last.overwrite) =>
        tree = last.pre.tree /\ zip = last.pre.zip

\* The second of two successful extract(overwrite=true) calls has returned,
\* on a version that gets the synthesized header and a patched descriptor.
C2_Witness ==
    /\ PrevExtractDone /\ ExtractDone /\ last.overwrite
    /\ tree.hdr = File(svn_text)
    /\ Contains(tree.cmake.text, newtext)

(***************************************************************************)
(* C3.  The patched capi/CMakeLists.txt.                                   *)
(***************************************************************************)
\* C3, for an archive whose descriptor holds the shared-library directive:
\* after a successful extract() the descriptor holds no shared-library
\* directive and holds the static-library directive, it has as many lines as
\* the archive's file, and every line of the archive's file without the
\* shared-library directive stands byte for byte at the same place.
C3_PatchedByteIdentical ==
    (ExtractDone /\ Contains(Archive(zip).cmake.text, oldtext)) =>
        LET before == RawLines(Archive(zip).cmake.text, <<>>)
            after  == RawLines(tree.cmake.text, <<>>)
        IN  /\ ~Contains(tree.cmake.text, oldtext)
            /\ Contains(tree.cmake.text, newtext)
            /\ Len(after) = Len(before)
            /\ \A i \in 1..Len(before) :
                  ~Contains(before[i], oldtext) => after[i] = before[i]

(***************************************************************************)
(* C4.  The revision header and the 3.6.0 gate.                            *)
(***************************************************************************)
\* C4: after a successful extract(), on a version below 3.6.0 whose archive
\* holds no geos_svn_revision.h the file holds exactly
\* "#define GEOS_SVN_REVISION 0", and on a version at or above 3.6.0 the file
\* is the archive's (missing when the archive has none); on such a version
\* no extract() call, failed ones included, leaves a header that was neither
\* there before the call nor in the archive.
C4_HeaderGate ==
    /\ (ExtractDone /\ Below360 /\ ~Archive(zip).hdr.exists) =>
           tree.hdr = File(svn_text)
    /\ (ExtractDone /\ ~Below360) => tree.hdr = Archive(zip).hdr
    /\ (last.op = "extract" /\ ~Below360 /\ tree.hdr.exists) =>
           \/ tree.hdr = last.pre.tree.hdr
           \/ zip \in ArchiveIds /\ tree.hdr = Archive(zip).hdr

\* A successful extract() of an archive without the header on a version
\* below 3.6.0 has written the header.
C4_Witness ==
    /\ ExtractDone /\ Below360 /\ ~Archive(zip).hdr.exists
    /\ tree.hdr = File(svn_text)
    /\ Events(last.log, "write_header") # {}

(***************************************************************************)
(* C5.  A revision header that is already there.                           *)
(***************************************************************************)
\* C5 as stated: on a version below 3.6.0, when geos_svn_revision.h is in
\* the extracted directory before extract() is called, its content after
\* extract() has returned is what it was before the call.
C5_HeaderBeforeCallKept ==
    (ExtractDone /\ Below360 /\ last.pre.tree.hdr.exists) =>
        tree.hdr = last.pre.tree.hdr

\* C5 as amended: on a version below 3.6.0, when the archive holds
\* geos_svn_revision.h, the file in the extracted directory after extract()
\* has returned is the archive's, never the synthesized line.
C5_ArchiveHeaderKept ==
    (ExtractDone /\ Below360 /\ Archive(zip).hdr.exists) =>
        tree.hdr = Archive(zip).hdr /\ Events(last.log, "write_header") = {}

\* A successful extract() on a version below 3.6.0 from an archive that
\* holds the header, over a tree whose header read otherwise.
C5_Witness ==
    /\ ExtractDone /\ Below360 /\ Archive(zip).hdr.exists
    /\ last.pre.tree.hdr.exists
    /\ last.pre.tree.hdr # Archive(zip).hdr
    /\ tree.hdr = Archive(zip).hdr

(***************************************************************************)
(* C6.  build() always extracts afresh.                                    *)
(***************************************************************************)
\* The build tool was started, or its start attempted, in the last call.
ReachedConfigure ==
    Events(last.log, "configure") \cup Events(last.log, "configure_failed") # {}

C7_CwdRestored ==
    last.op = "build" =>
        /\ cwd = last.pre.cwd
        /\ \A i \in 1..Len(last.log) :
              last.log[i].ev \in {"configure", "configure_failed", "build"}
                  => last.log[i].cwd = BuildDir /\ last.log[i].cwd # last.pre.cwd

\* build() failed after it had changed into the build subdirectory.
C7_Witness ==
    /\ last.op = "build" /\ last.err = "OSError"
    /\ Events(last.log, "chdir") # {}
    /\ cwd = last.pre.cwd

(***************************************************************************)
(* C8.  extract() downloads exactly when the archive file is missing.      *)
(***************************************************************************)
\* C8: an extract() call that finds the archive file makes no fetch and
\* leaves the file as it is; one that finds none makes exactly one fetch,
\* before it opens the archive.
C8_DownloadIffArchiveAbsent ==
    last.op = "extract" =>
        /\ last.pre.zip # NoZip =>
              Events(last.log, "urlopen") = {} /\ zip = last.pre.zip
        /\ last.pre.zip = NoZip =>
              /\ Cardinality(Events(last.log, "urlopen")) = 1
              /\ \A u \in Events(last.log, "urlopen") :
                 \A z \in Events(last.log, "ZipFile") : u < z

\* extract() found no archive file, fetched it and decompressed it.
C8_Witness ==
    /\ ExtractDone /\ last.pre.zip = NoZip
    /\ Events(last.log, "urlopen") # {}
    /\ Events(last.log, "extractall") # {}

(***************************************************************************)
(* C9.  Disposal and the root directory.                                   *)
(***************************************************************************)
\* C9 as stated: after disposal a self-allocated root is gone, a
\* caller-supplied root is still there with what it held, and no error came
\* out of the disposal.
C9_EphemeralRootGone ==
    ~alive =>
        /\ last.err = "none"
        /\ temp => ~rootExists
        /\ ~temp => rootExists = last.pre.rootExists

\* C9 as amended: after disposal a self-allocated root is gone unless its
\* removal failed, and then the failure is swallowed and the directory is
\* still there; a caller-supplied root, its archive file and its
\* extracted tree are left alone by disposal, and neither that root nor an
\* archive file in it is removed by any call; disposal raises no error.
C9_DisposalRemovesOwnRoot ==
    /\ ~alive =>
          /\ last.err = "none"
          /\ (temp /\ ~last.rmfail) =>
                ~rootExists /\ zip = NoZip /\ ~tree.exists
          /\ (temp /\ last.rmfail) => rootExists
          /\ ~temp =>
                /\ rootExists = last.pre.rootExists
                /\ zip = last.pre.zip /\ tree = last.pre.tree
    /\ (~temp /\ last.pre.rootExists) =>
          rootExists /\ (last.pre.zip # NoZip => zip # NoZip)

\* A self-allocated root that held an archive and an extracted tree is gone
\* after disposal.
C9_Witness ==
    /\ ~alive /\ temp /\ ~rootExists
    /\ last.pre.tree.exists /\ last.pre.zip \in ArchiveIds

(***************************************************************************)
(* C10.  A failed download and the archive path.                           *)
(***************************************************************************)
\* C10: when download() fails, the archive path, unless a cut-short file
\* was there before the call, holds no file or a complete archive.
C10_NoTruncatedArchive ==
    (last.op = "download" /\ last.err # "none" /\ last.pre.zip # Truncated) =>
        zip # Truncated

(***************************************************************************)
(* C11.  The arguments on Windows below 3.6.0.                             *)
(***************************************************************************)
\* The starts of the build tool in the last call: configure, and build.
Configures ==
    {last.log[i] : i \in Events(last.log, "configure")
                        \cup Events(last.log, "configure_failed")}
Builds ==
    {last.log[i] : i \in Events(last.log, "build")
                        \cup Events(last.log, "build_failed")}

JobVariable(env) == {v \in env : v[1] = "MAKEFLAGS"}

LegacyWindows == host.os_name = "nt" /\ Below360

OtherVariables(env) == {v \in env : v[1] # "MAKEFLAGS"}

\* C12: in every build() call on a non-Windows host the environment of the
\* build invocation holds MAKEFLAGS with the value "-j <njobs>" and no other
\* MAKEFLAGS, every other variable is the caller's, and neither the
\* configure nor the build arguments hold "-j".
C12_PosixJobsInEnvironment ==
    (last.op = "build" /\ host.os_name # "nt") =>
        /\ \A b \in Builds :
              /\ JobVariable(b.env)
                    = {<<"MAKEFLAGS", "-j " \o ToString(last.njobs)>>}
              /\ OtherVariables(b.env) = OtherVariables(host.environ)
              /\ "-j" \notin Elems(b.args)
        /\ \A c \in Configures : "-j" \notin Elems(c.args)

\* A build() call with njobs = 4 on a non-Windows host whose caller already
\* had a MAKEFLAGS variable, the build invocation started.
C12_Witness ==
    /\ last.op = "build" /\ host.os_name # "nt" /\ last.njobs = 4
    /\ JobVariable(host.environ) # {}
    /\ Events(last.log, "build") # {}

(***************************************************************************)
(* C13.  The explicit job-count flag.                                      *)
(***************************************************************************)
HasJobFlag(args, n) ==
    \E i \in 1..(Len(args) - 1) : args[i] = "-j" /\ args[i + 1] = ToString(n)

ModernWindows == host.os_name = "nt" /\ ~Below360

\* C13 as stated: on Windows with version >= 3.6.0 and on every non-Windows
\* host, the arguments of the build invocation hold "-j", njobs.
C13_JobFlagAlsoOffWindows ==
    (last.op = "build" /\ (ModernWindows \/ host.os_name # "nt")) =>
        \A b \in Builds : HasJobFlag(b.args, last.njobs)

\* C13 amended: on Windows with version >= 3.6.0 the arguments of the build
\* invocation hold "-j", njobs (ahead of "--config Release --target
\* install") and the environment is the caller's; on a non-Windows host the
\* arguments hold no "-j" and the job count is in MAKEFLAGS.
C13_JobFlagOnModernWindows ==
    last.op = "build" =>
        \A b \in Builds :
           /\ ModernWindows =>
                 /\ HasJobFlag(b.args, last.njobs)
                 /\ b.args = <<"cmake", "--build", ".", "-j",
                               ToString(last.njobs), "--config", "Release",
                               "--target", "install">>
                 /\ b.env = host.environ
           /\ host.os_name # "nt" =>
                 /\ "-j" \notin Elems(b.args)
                 /\ JobVariable(b.env)
                       = {<<"MAKEFLAGS", "-j " \o ToString(last.njobs)>>}

\* A build() call with njobs = 4 on Windows at version 3.6.0, the build
\* invocation started.
C13_Witness ==
    /\ last.op = "build" /\ ModernWindows /\ last.njobs = 4
    /\ Events(last.log, "build") # {}

(***************************************************************************)
(* C15.  Two invocations, exit statuses dropped.                           *)
(***************************************************************************)
ReachedBuildDir == last.op = "build" /\ Events(last.log, "chdir") # {}

Before(is, js) == \A i \in is : \A j \in js : i < j

\* C15 as stated: every build() call that reaches the build subdirectory
\* runs configure once, then build once, and returns without error.
C15_AlwaysTwoInvocations ==
    ReachedBuildDir =>
        /\ Cardinality(Events(last.log, "configure")) = 1
        /\ Cardinality(Events(last.log, "build")) = 1
        /\ Before(Events(last.log, "configure"), Events(last.log, "build"))
        /\ last.err = "none"

\* C15 amended: in every build() call that reaches the build subdirectory
\* cmake is started once to configure, after the change of directory; if
\* that start succeeds, cmake is started once more to build, whatever the
\* exit status of configure was; build() returns without error exactly when
\* both starts succeeded, whatever the two exit statuses; the only error is
\* the OSError of a start that found no cmake, after which nothing more is
\* started.
C15_TwoInvocationsWhenStartable ==
    ReachedBuildDir =>
        LET co == Events(last.log, "configure")
            cf == Events(last.log, "configure_failed")
            bu == Events(last.log, "build")
            bf == Events(last.log, "build_failed")
        IN  /\ Cardinality(co \cup cf) = 1
            /\ Before(Events(last.log, "chdir"), co \cup cf)
            /\ co # {} => Cardinality(bu \cup bf) = 1
            /\ cf # {} => bu \cup bf = {}
            /\ Before(co, bu \cup bf)
            /\ last.err = "none" <=> (co # {} /\ bu # {})
            /\ last.err \in {"none", "OSError"}
            /\ \A i \in cf \cup bf : last.log[i].status = "enoent"
            /\ \A i \in co \cup bu : last.log[i].status \in {"ok", "failed"}

\* A build() call in which configure and build both exited non-zero, and
\* which returned without error.
C15_Witness ==
    /\ ReachedBuildDir /\ last.err = "none"
    /\ \E i \in Events(last.log, "configure") : last.log[i].status = "failed"
    /\ \E i \in Events(last.log, "build") : last.log[i].status = "failed"

(***************************************************************************)
(* C16.  When the two directories are created.                             *)
(***************************************************************************)
ExtractedInBuild == last.op = "build" /\ Events(last.log, "makedirs_build") # {}

InvocationEvents ==
    Events(last.log, "configure") \cup Events(last.log, "configure_failed")
        \cup Events(last.log, "build") \cup Events(last.log, "build_failed")

\* C16 as stated: when build() changes the working directory, the install
\* directory exists already: it was there before the call, or its creation
\* precedes the change of directory and the configure invocation.
C16_InstallDirBeforeChdir ==
    ReachedBuildDir =>
        \/ last.pre.install # "absent"
        \/ /\ Events(last.log, "makedirs_install") # {}
           /\ Before(Events(last.log, "makedirs_install"),
                     Events(last.log, "chdir") \cup InvocationEvents)

\* C16 amended: build() attempts the creation of the build subdirectory once,
\* before the change of directory, and the directory exists whenever the
\* change is made; it attempts the creation of the install directory once,
\* after the change of directory and after the configure invocation has
\* returned, before the build invocation, and in no call in which configure
\* could not be started; an install directory that exists already is not an
\* error, and is left as it was until the build invocation.
C16_DirectoriesInCodeOrder ==
    ExtractedInBuild =>
        LET mb == Events(last.log, "makedirs_build")
            mi == Events(last.log, "makedirs_install")
            cd == Events(last.log, "chdir")
            co == Events(last.log, "configure")
            bu == Events(last.log, "build") \cup Events(last.log, "build_failed")
        IN  /\ Cardinality(mb) = 1
            /\ Before(mb, cd \cup Events(last.log, "chdir_failed")
                             \cup InvocationEvents)
            /\ cd # {} => \A i \in mb : last.log[i].status # "failed"
            /\ Cardinality(mi) = (IF co # {} THEN 1 ELSE 0)
            /\ Before(cd \cup co, mi) /\ Before(mi, bu)
            /\ \A i \in mi :
                  /\ last.log[i].status = "exists" <=> last.pre.install # "absent"
                  /\ last.log[i].status = "exists" => bu # {}
            /\ (last.pre.install # "absent" /\ Events(last.log, "build") = {})
                  => install = last.pre.install

\* A build() call that found the install directory in place and went on to
\* the build invocation.
C16_Witness ==
    /\ ExtractedInBuild /\ last.pre.install # "absent"
    /\ Events(last.log, "makedirs_install") # {}
    /\ Events(last.log, "build") # {}

(***************************************************************************)
(* C17.  Failed directory creation.                                        *)
(***************************************************************************)
FailedCreations ==
    {i \in Events(last.log, "makedirs_build")
              \cup Events(last.log, "makedirs_install") :
        last.log[i].status = "failed"}

\* C17 as stated: a directory creation that fails for another reason than
\* "already exists" ends the operation with a filesystem error.  After a
\* constructor that returned with a caller-supplied root, the root exists;
\* a build() call in which the creation of the build subdirectory or of the
\* install directory failed raises, and starts nothing after the failure.
C17_CreationErrorsPropagate ==
    /\ (last.op = "new" /\ ~temp) => rootExists
    /\ last.op = "build" =>
          \A i \in FailedCreations :
             /\ last.err = "OSError"
             /\ Before({i}, InvocationEvents)

(***************************************************************************)
(* C18.  Executable files after extraction.                                *)
(***************************************************************************)
\* C18: after every successful extract() the files of the extracted tree
\* with executable permission (mode 0o755) are exactly its files
\* tools/<name>.sh directly under tools; a script deeper under tools and
\* every other file are not executable.
C18_ExactlyToolScriptsExecutable ==
    (last.op = "extract" /\ last.err = "none") =>
        /\ tree.exists
        /\ tree.exec = {p \in tree.files :
                           Len(p) = 3 /\ p[1] = "tools" /\ p[3] = "sh"}

\* A successful extract() of an archive with tools/astyle.sh, the deeper
\* tools/ci/script.sh and README.
C18_Witness ==
    /\ last.op = "extract" /\ last.err = "none"
    /\ {<<"tools", "astyle", "sh">>, <<"tools", "ci", "script", "sh">>,
         <<"README", "">>} \subseteq tree.files
    /\ tree.exec # {}

(***************************************************************************)
(* C19.  build() when its extraction fails.                                *)
(***************************************************************************)
\* The extraction inside the last build() call did not come to its end: the
\* patch of capi/CMakeLists.txt was not made.
ExtractionFailedInBuild == last.op = "build" /\ Events(last.log, "patch") = {}

BuildStepEvents ==
    Events(last.log, "makedirs_build") \cup Events(last.log, "makedirs_install")
        \cup Events(last.log, "chdir") \cup Events(last.log, "chdir_failed")
        \cup Events(last.log, "chdir_back") \cup InvocationEvents

\* C19: a build() call whose extraction fails returns the error of the
\* extraction (download, archive or file error); the current directory
\* never left the caller's, the build subdirectory and the install
\* directory were not created and the build tool was not started.  In every
\* build() call a start of the build tool comes after the patch of the same
\* call.
C19_FailedExtractionStopsBuild ==
    /\ ExtractionFailedInBuild =>
          /\ last.err \in {"URLError", "IOError", "BadZipFile"}
          /\ BuildStepEvents = {}
          /\ cwd = last.pre.cwd
          /\ \A i \in 1..Len(last.log) : last.log[i].cwd = last.pre.cwd
          /\ install = last.pre.install
          /\ tree.build \in {"absent", last.pre.tree.build}
    /\ last.op = "build" =>
          /\ Events(last.log, "patch") # {} \/ InvocationEvents = {}
          /\ Before(Events(last.log, "patch"), BuildStepEvents)

\* A build() call that failed on an archive without capi/CMakeLists.txt.
C19_Witness ==
    /\ ExtractionFailedInBuild
    /\ last.err = "IOError"
    /\ Events(last.log, "open_cmake") # {}

(***************************************************************************)
(* C14.  The version string read back.  Checked under SpecVersion.         *)
(***************************************************************************)
\* No component of the dotted string has a superfluous leading zero.
Canonical(chars) ==
    \A i \in 1..Len(chars) :
       (chars[i] = "0" /\ (i = 1 \/ chars[i - 1] = "."))
          => (i = Len(chars) \/ chars[i + 1] = ".")

\* C14 as stated: for every dotted string of digit components the property
\* version is the string the instance was constructed with, and the archive
\* name, the directory name and the link are made from that string.
C14_VersionReadBackAsGiven ==
    /\ observed.version # <<>> => observed.version = version_arg
    /\ observed.names # <<>> =>
          observed.names[1].zipname = <<"geos-">> \o version_arg \o <<".zip">>

\* C14 amended: the property version is the string the instance was
\* constructed with exactly when no component of that string has a
\* superfluous leading zero; in every case it is a dotted string that parses
\* to the same tuple, without leading zeros, and the archive name, the
\* directory name and the link are made from the property version.
C14_CanonicalVersionReadBack ==
    /\ observed.version # <<>> =>
          /\ observed.version = version_arg <=> Canonical(version_arg)
          /\ Canonical(observed.version)
          /\ version_tuple_of(observed.version) = version_tuple_of(version_arg)
    /\ (observed.version # <<>> /\ observed.names # <<>>) =>
          /\ observed.names[1].zipname
                = <<"geos-">> \o observed.version \o <<".zip">>
          /\ observed.names[1].zipfold = <<"geos-">> \o observed.version
          /\ observed.names[1].link
                = <<"https://github.com/libgeos/geos/archive/refs/tags", "/">>
                     \o observed.version \o <<".zip">>
    /\ (observed.names # <<>> /\ Canonical(version_arg)) =>
          observed.names[1].zipname = <<"geos-">> \o version_arg \o <<".zip">>

\* An instance constructed with "3.6.0" whose version and names were read.
C14_Witness ==
    /\ version_arg = <<"3", ".", "6", ".", "0">>
    /\ observed.version # <<>> /\ observed.names # <<>>

(***************************************************************************)
(* C20.  One threshold test for both gates.  Checked under SpecVersion.    *)
(***************************************************************************)
\* a is below b in lexicographic order: they agree on the first k places and
\* then a ends while b goes on, or a has the smaller component.
LexBelow(a, b) ==
    \E k \in 0..Len(a) :
       /\ k <= Len(b)
       /\ \A i \in 1..k : a[i] = b[i]
       /\ \/ k = Len(a) /\ k < Len(b)
          \/ k < Len(a) /\ k < Len(b) /\ a[k + 1] < b[k + 1]

\* C20: for every version string the header test of extract() comes out as
\* "the parsed tuple is lexicographically below (3, 6, 0)", and so do, on
\* Windows, the generator test and the driver-variable test of build(), so
\* the three agree; off Windows build() uses neither.  "3.6" and "3" are
\* below; "3.6.0", "6" and "3.6.3" are not.
C20_GatesAgreeLexicographic ==
    LET below == LexBelow(version_tuple, <<3, 6, 0>>)
    IN  /\ observed.header # <<>> =>
              /\ observed.header[1] = below
              /\ version_arg \in {<<"3", ".", "6">>, <<"3">>}
                    => observed.header[1]
              /\ version_arg \in {<<"3", ".", "6", ".", "0">>, <<"6">>,
                                   <<"3", ".", "6", ".", "3">>}
                    => ~observed.header[1]
        /\ observed.generator # <<>> =>
              /\ observed.generator[1] = (host.os_name = "nt" /\ below)
              /\ observed.driver[1] = (host.os_name = "nt" /\ below)
        /\ (observed.header # <<>> /\ observed.generator # <<>>
               /\ host.os_name = "nt") =>
              /\ observed.header[1] = observed.generator[1]
              /\ observed.header[1] = observed.driver[1]

\* An instance constructed with "3.6" on Windows: both tests were made and
\* took the version for one below the threshold.
C20_Witness ==
    /\ version_arg = <<"3", ".", "6">> /\ host.os_name = "nt"
    /\ observed.header = <<TRUE>> /\ observed.generator = <<TRUE>>
    /\ observed.driver = <<TRUE>>

====
